---- MODULE Spec2Model ----
(***************************************************************************)
(* A model of the YouTube comment collection pipeline:                     *)
(*   scripts/scraper.py  YouTubeCommentScraper (resolver, enumerator,      *)
(*                       comment fetcher, retry loop)                      *)
(*   main.py             _run_for_channel and the --all batch loop         *)
(* The remote API (googleapiclient) is the environment: every execution of *)
(* a request either returns a response or raises.                          *)
(***************************************************************************)
EXTENDS Integers, Sequences, FiniteSets, TLC

VARIABLES
    entry,            \* the operation under analysis (the outermost call)
    pc,               \* control position
    sleep_seconds,    \* self._sleep_seconds
    request,          \* the request object handed to _execute_with_retry
    attempt,          \* _execute_with_retry: attempt
    log,              \* what the current _execute_with_retry call did, in order
    result,           \* outcome of the last request.execute()
    error,            \* the exception that left the outermost call, if any
    tracing,          \* whether the outcomes of the executions are recorded
    trace,            \* the recorded outcomes of the current request's executions
    issued,           \* the apis on which a request was executed so far
    failed,           \* some execution of a request raised
    pageExecs,        \* number of executions of upload-list page requests
    uploads,          \* remote: the uploads collection (video ids, newest first)
    channel_id,       \* fetch_video_ids_from_channel: channel_id
    max_videos,       \* fetch_video_ids_from_channel: max_videos
    uploads_playlist_id, \* fetch_video_ids_from_channel: uploads_playlist_id
    value,            \* resolve_channel_id: value
    raw,              \* resolve_channel_id: raw
    handle,           \* resolve_channel_id: handle
    commentCount,     \* remote: number of top-level comments of each video
    per_video_limit,  \* fetch_comments_for_videos: per_video_limit
    video_ids,        \* fetch_comments_for_videos: video_ids
    vidx,             \* fetch_comments_for_videos: position of the for loop
    title,            \* fetch_comments_for_videos: title
    all_records,      \* fetch_comments_for_videos: all_records
    page_token,       \* _fetch_top_level_comments: page_token
    fetched,          \* _fetch_top_level_comments: fetched
    records,          \* list(...) consuming the generator: records yielded so far
    tokenAbsent,      \* a comment page without continuation token was received
    ending,           \* how the retrieval for the last video ended
    channels,         \* main: channels (the entries of channels.json, in order)
    ch_idx,           \* main: position of the for loop over channels
    updated,          \* main: updated
    channels_file,    \* channels.json as last written by _write_channels
    csv,              \* the tables written by to_csv, in order
    returned          \* the value returned by the last call that returned

cfgVars == <<sleep_seconds, tracing>>
ghostVars == <<issued, failed, pageExecs>>
frameVars == <<request, attempt, log, trace, result>>
retryVars == <<cfgVars, ghostVars, frameVars>>
enumVars == <<channel_id, max_videos, uploads_playlist_id>>
resolveVars == <<value, raw, handle>>
worldVars == <<commentCount, uploads>>
fetchVars == <<page_token, fetched, records, tokenAbsent, ending>>
videoVars == <<per_video_limit, video_ids, vidx, title, all_records>>
batchVars == <<channels, ch_idx, updated, channels_file, csv>>
vars == <<entry, pc, error, returned, worldVars, retryVars, fetchVars, videoVars, enumVars,
          resolveVars, batchVars>>

----------------------------------------------------------------------------
(* Bounds of the model *)

MaxVideos == 2
TinySource == 2
MaxUploads == 120
MaxTokens == 4
NameLen == 3
BigSource == 520
ShortPage == 50
NumAuthors == 3
MaxChannels == 2
Overfill == 1

(* Program constants *)

max_retries == 5
BackoffCap == 30
MinLimit == 100
MaxLimit == 500
CommentBatch == 100
PlaylistBatch == 50
IdMinChars == 20
BareMinLen == 20

None == 0
NoCap == -1

Min(a, b) == IF a < b THEN a ELSE b

RECURSIVE Pow2(_)
Pow2(n) == IF n = 0 THEN 1 ELSE 2 * Pow2(n - 1)

----------------------------------------------------------------------------
(* googleapiclient: responses and exceptions *)

TransientStatuses == {429, 500, 503}
AccessStatuses == {403, 404}
HttpStatuses == TransientStatuses \cup AccessStatuses \cup {400}

HttpError(s) == [type |-> "HttpError", status_code |-> s, msg |-> ""]
OtherError == [type |-> "OSError", status_code |-> None, msg |-> ""]
ValueError(m) == [type |-> "ValueError", status_code |-> None, msg |-> m]
KeyError(m) == [type |-> "KeyError", status_code |-> None, msg |-> m]
SystemExit(m) == [type |-> "SystemExit", status_code |-> None, msg |-> m]
NoError == [type |-> "none", status_code |-> None, msg |-> ""]

NoResponse == [items |-> <<>>, nextPageToken |-> None]
NoResult == [kind |-> "none", resp |-> NoResponse, exc |-> NoError]
Ok(resp) == [kind |-> "ok", resp |-> resp, exc |-> NoError]
Raised(exc) == [kind |-> "exc", resp |-> NoResponse, exc |-> exc]

NoRequest == [api |-> "none", id |-> None, maxResults |-> 0, pageToken |-> None]

Apis == {"handle", "search", "channels", "playlistItems", "videos", "commentThreads"}

----------------------------------------------------------------------------
(* Strings the resolver reads: sequences of tokens, each token a piece of text *)
(*   YC    "youtube.com/channel/"         YT    "youtube.com/"              *)
(*   UC n  "UC" and n id characters       NAME  n id characters (a name)    *)
(*   AT    "@"      SL  "/"      SP  " "                                    *)
(*   PART n  the first n characters of a YT or YC token                     *)
(* No two tokens of id characters (UC, NAME) are adjacent in an input.      *)

Tok(t, n) == [t |-> t, n |-> n]
YC == Tok("YC", 20)
YT == Tok("YT", 12)
AT == Tok("AT", 1)
SL == Tok("SL", 1)
SP == Tok("SP", 1)
NAME == Tok("NAME", NameLen)

\* len() of one token
CharLen(tok) == IF tok.t = "UC" THEN tok.n + 2 ELSE tok.n

RECURSIVE StrLen(_)
StrLen(s) == IF s = <<>> THEN 0 ELSE CharLen(Head(s)) + StrLen(Tail(s))

RECURSIVE LStrip(_)
LStrip(s) == IF s # <<>> /\ Head(s).t = "SP" THEN LStrip(Tail(s)) ELSE s

RECURSIVE RStrip(_)
RStrip(s) ==
    IF s # <<>> /\ s[Len(s)].t = "SP" THEN RStrip(SubSeq(s, 1, Len(s) - 1)) ELSE s

\* str.strip()
Strip(s) == RStrip(LStrip(s))

\* str.lstrip("@")
RECURSIVE LStripAt(_)
LStripAt(s) == IF s # <<>> /\ Head(s).t = "AT" THEN LStripAt(Tail(s)) ELSE s

\* the channel id the remote lookups answer with
RemoteChannelId == <<Tok("UC", 22)>>

----------------------------------------------------------------------------
(* The remote collaborator *)

\* channels().list(part="id", forHandle=h, maxResults=1)
HandleRequest(h) ==
    [api |-> "handle", id |-> h, maxResults |-> 1, pageToken |-> None]

\* search().list(part="snippet", q=query, type="channel", maxResults=1)
SearchRequest(q) ==
    [api |-> "search", id |-> q, maxResults |-> 1, pageToken |-> None]

\* A lookup finds nothing, a channel, or an item without a usable id.
LookupResponses(req) ==
    { [items |-> <<>>, nextPageToken |-> None],
      [items |-> <<[id |-> RemoteChannelId]>>, nextPageToken |-> None],
      [items |-> <<[id |-> <<SP>>]>>, nextPageToken |-> None] }

\* videos().list(part="snippet", id=video_id, maxResults=1)
VideosRequest(v) ==
    [api |-> "videos", id |-> v, maxResults |-> 1, pageToken |-> None]

\* commentThreads().list(videoId=..., maxResults=batch_size, pageToken=...)
CommentsRequest(v, batch_size, token) ==
    [api |-> "commentThreads", id |-> v, maxResults |-> batch_size, pageToken |-> token]

\* A page token is an opaque cursor: here the position after which to continue.
TokenAt(pos) == pos + 1
PosOf(token) == IF token = None THEN 0 ELSE token - 1

\* channels().list(part="contentDetails", id=channel_id, maxResults=1)
ChannelsRequest(c) ==
    [api |-> "channels", id |-> c, maxResults |-> 1, pageToken |-> None]

\* playlistItems().list(playlistId=..., maxResults=50, pageToken=...)
PlaylistRequest(playlist, token) ==
    [api |-> "playlistItems", id |-> playlist, maxResults |-> PlaylistBatch,
     pageToken |-> token]

\* The uploads collection of channel c is named after it: "UU" for "UC".
UploadsOf(c) == [i \in 1..Len(c) |-> IF i = 1 THEN Tok("UU", c[i].n) ELSE c[i]]

\* The channel is unknown, known, or known without an uploads collection.
ChannelResponses(req) ==
    { [items |-> <<>>, nextPageToken |-> None],
      [items |-> <<[uploads |-> UploadsOf(req.id)]>>, nextPageToken |-> None],
      [items |-> <<[uploads |-> <<>>]>>, nextPageToken |-> None] }

\* Upload-list pages are of fixed size: maxResults items while that many remain.
PlaylistResponses(req) ==
    LET pos == PosOf(req.pageToken)
        n == Min(req.maxResults, Len(uploads) - pos)
    IN  { [items |-> SubSeq(uploads, pos + 1, pos + n),
           nextPageToken |-> IF pos + n < Len(uploads) THEN TokenAt(pos + n) ELSE None] }

\* A video that is available has a title (possibly missing from the snippet);
\* an unavailable one yields no item.
VideoResponses(req) ==
    { [items |-> <<>>, nextPageToken |-> None],
      [items |-> <<[title |-> req.id]>>, nextPageToken |-> None],
      [items |-> <<[title |-> None]>>, nextPageToken |-> None] }

\* The i-th top-level comment of video v, in the collaborator's relevance order.
RawComment(v, i) ==
    [textDisplay |-> v * 1000 + i,
     publishedAt |-> i,
     likeCount |-> i % 3,
     authorDisplayName |-> <<"author", (i % NumAuthors) + 1>>]

CommentPage(v, pos, n) ==
    [items |-> [i \in 1..n |-> RawComment(v, pos + i)],
     nextPageToken |-> IF pos + n < commentCount[v] THEN TokenAt(pos + n) ELSE None]

\* A page may be full, short or empty, or hold more items than maxResults asks
\* for: the code takes the items of a response as they come.
CommentResponses(req) ==
    LET pos == PosOf(req.pageToken)
        left == commentCount[req.id] - pos
        full == Min(req.maxResults, left)
        sizes == {full} \cup (IF ShortPage < full THEN {ShortPage} ELSE {})
                        \cup (IF full > 0 THEN {0} ELSE {})
                        \cup (IF left > full THEN {Min(full + Overfill, left)} ELSE {})
    IN  { CommentPage(req.id, pos, n) : n \in sizes }

Responses(req) ==
    CASE req.api \in {"handle", "search"} -> LookupResponses(req)
      [] req.api = "channels" -> ChannelResponses(req)
      [] req.api = "playlistItems" -> PlaylistResponses(req)
      [] req.api = "videos" -> VideoResponses(req)
      [] req.api = "commentThreads" -> CommentResponses(req)
      [] OTHER -> {NoResponse}

----------------------------------------------------------------------------
(* YouTubeCommentScraper._execute_with_retry *)

Pace_FirstAttemptOnly ==
    IF sleep_seconds > 0 /\ attempt = 0
      THEN <<[ev |-> "pace", n |-> sleep_seconds]>> ELSE <<>>

\* if self._sleep_seconds > 0: time.sleep(self._sleep_seconds)
Pace == IF sleep_seconds > 0 THEN <<[ev |-> "pace", n |-> sleep_seconds]>> ELSE <<>>
Executed == <<[ev |-> "execute", n |-> 0]>>
Waited(n) == <<[ev |-> "backoff", n |-> n]>>

\* status = getattr(exc, "status_code", None) or exc.resp.status
StatusOf(exc) == exc.status_code

CeilingReached_OffByOne(a) == a >= max_retries

\* if attempt > max_retries: raise
CeilingReached(a) == a > max_retries

IsTransient_Any(status) == status # None

\* if status in {429, 500, 503}
IsTransient(status) == status \in TransientStatuses

Backoff_FromOne(a) == Min(Pow2(a - 1), BackoffCap)

\* time.sleep(min(2 ** attempt, 30))
Backoff(a) == Min(Pow2(a), BackoffCap)

Record(outcome) == IF tracing THEN Append(trace, outcome) ELSE trace

\* bookkeeping of one request.execute(): which api, whether it raised
Observe(raised) ==
    /\ issued' = issued \cup {request.api}
    /\ failed' = (failed \/ raised)
    /\ pageExecs' = IF request.api = "playlistItems" THEN pageExecs + 1 ELSE pageExecs

\* time.sleep(pace); return request.execute()
ExecuteReturns ==
    /\ pc = "execute"
    /\ \E resp \in Responses(request) :
         /\ result' = Ok(resp)
         /\ log' = log \o Pace \o Executed
         /\ trace' = Record(Ok(resp))
    /\ Observe(FALSE)
    /\ pc' = "returned"
    /\ UNCHANGED <<entry, batchVars, error, returned, worldVars, enumVars, resolveVars, cfgVars, request,
                   attempt, fetchVars, videoVars>>

\* request.execute() raises HttpError: the except clause
ExecuteRaisesHttpError ==
    /\ pc = "execute"
    /\ \E s \in HttpStatuses :
         LET exc == HttpError(s)
             a == attempt + 1
             retry == ~CeilingReached(a) /\ IsTransient(StatusOf(exc))
         IN  /\ attempt' = a
             /\ trace' = Record(Raised(exc))
             /\ IF retry
                   THEN /\ log' = log \o Pace \o Executed \o Waited(Backoff(a))
                        /\ result' = NoResult
                        /\ pc' = "execute"
                   ELSE /\ log' = log \o Pace \o Executed
                        /\ result' = Raised(exc)
                        /\ pc' = "returned"
    /\ Observe(TRUE)
    /\ UNCHANGED <<entry, batchVars, error, returned, worldVars, enumVars, resolveVars, cfgVars, request,
                   fetchVars, videoVars>>

\* request.execute() raises something that is not an HttpError: not caught here
ExecuteRaisesOther ==
    /\ pc = "execute"
    /\ result' = Raised(OtherError)
    /\ log' = log \o Pace \o Executed
    /\ trace' = Record(Raised(OtherError))
    /\ Observe(TRUE)
    /\ pc' = "returned"
    /\ UNCHANGED <<entry, batchVars, error, returned, worldVars, enumVars, resolveVars, cfgVars, request,
                   attempt, fetchVars, videoVars>>

ExecuteWithRetry == ExecuteReturns \/ ExecuteRaisesHttpError \/ ExecuteRaisesOther

\* self._execute_with_retry(request): attempt = 0
Call(req) ==
    /\ request' = req
    /\ attempt' = 0
    /\ log' = <<>>
    /\ trace' = <<>>
    /\ result' = NoResult
    /\ pc' = "execute"

\* the caller has taken the result: the frame of _execute_with_retry is gone
Taken ==
    /\ request' = NoRequest
    /\ attempt' = 0
    /\ log' = <<>>
    /\ trace' = <<>>
    /\ result' = NoResult

----------------------------------------------------------------------------
(* An exception leaves the outermost call *)

Raise(exc) ==
    /\ error' = exc
    /\ pc' = "raised"

\* a call returns v: the outermost call is done, an inner one hands v to its
\* caller, which continues at position next
Return(v, outermost, next) ==
    /\ returned' = v
    /\ pc' = IF entry = outermost THEN "done" ELSE next

----------------------------------------------------------------------------
(* YouTubeCommentScraper._fetch_top_level_comments, consumed by list(...) *)

Sha256_Plain(author) == author

\* hashlib.sha256(author.encode("utf-8")).hexdigest()
Sha256(author) == <<"sha256", author>>

\* CommentRecord(...) built from one item of a comment page
CommentRecord(item, video_title) ==
    [video_title |-> video_title,
     comment_text |-> item.textDisplay,
     comment_date |-> item.publishedAt,
     like_count |-> item.likeCount,
     username_hash |-> Sha256(item.authorDisplayName)]

\* for item in items: yield ...; fetched += 1; if fetched >= limit: return
\* Gives the records yielded, the new value of fetched and whether it returned.
\* The loop over the items runs in order, a half of the page after the other.
RECURSIVE YieldItems(_, _, _, _)
YieldItems(items, n, limit, video_title) ==
    IF Len(items) = 0
      THEN [out |-> <<>>, fetched |-> n, stop |-> FALSE]
      ELSE IF Len(items) = 1
        THEN [out |-> <<CommentRecord(items[1], video_title)>>,
              fetched |-> n + 1,
              stop |-> (n + 1 >= limit)]
        ELSE LET h == Len(items) \div 2
                 a == YieldItems(SubSeq(items, 1, h), n, limit, video_title)
             IN  IF a.stop
                   THEN a
                   ELSE LET b == YieldItems(SubSeq(items, h + 1, Len(items)),
                                            a.fetched, limit, video_title)
                        IN  [out |-> a.out \o b.out, fetched |-> b.fetched, stop |-> b.stop]

BatchSize_Fixed(limit, n) == CommentBatch

\* batch_size = min(100, limit - fetched)
BatchSize(limit, n) == Min(CommentBatch, limit - n)

IsAccessError_403Only(exc) == exc.type = "HttpError" /\ exc.status_code = 403

\* except HttpError as exc: if getattr(exc, "status_code", None) in {403, 404}
IsAccessError(exc) == exc.type = "HttpError" /\ exc.status_code \in AccessStatuses

\* page_token = response.get("nextPageToken")
NextPageToken(resp) == resp.nextPageToken

Exhausted_Never(token) == FALSE

\* if not page_token: return
Exhausted(token) == token = None

\* the generator ends: list(...) is complete, all_records.extend(records)
EndVideo(recs, how) ==
    /\ ending' = how
    /\ all_records' = all_records \o recs
    /\ vidx' = vidx + 1
    /\ pc' = "next_video"

\* while fetched < limit: build the page request and execute it
PageLoop ==
    /\ pc = "page"
    /\ IF fetched < per_video_limit
         THEN /\ Call(CommentsRequest(video_ids[vidx],
                                      BatchSize(per_video_limit, fetched), page_token))
              /\ UNCHANGED <<vidx, all_records, ending>>
         ELSE /\ EndVideo(records, "limit")
              /\ UNCHANGED frameVars
    /\ UNCHANGED <<entry, batchVars, error, returned, worldVars, enumVars, resolveVars, cfgVars, ghostVars,
                   page_token, fetched, records, tokenAbsent,
                   per_video_limit, video_ids, title>>

\* response received: yield its items, then follow the continuation token
PageReturned ==
    /\ pc = "returned" /\ request.api = "commentThreads" /\ result.kind = "ok"
    /\ entry # "retry"
    /\ LET y == YieldItems(result.resp.items, fetched, per_video_limit, title)
           token == NextPageToken(result.resp)
       IN  /\ fetched' = y.fetched
           /\ records' = records \o y.out
           /\ tokenAbsent' = (tokenAbsent \/ result.resp.nextPageToken = None)
           /\ IF y.stop
                 THEN /\ page_token' = page_token
                      /\ EndVideo(records \o y.out, "limit")
                 ELSE /\ page_token' = token
                      /\ IF Exhausted(token)
                            THEN EndVideo(records \o y.out, "exhausted")
                            ELSE /\ pc' = "page"
                                 /\ UNCHANGED <<vidx, all_records, ending>>
    /\ Taken
    /\ UNCHANGED <<entry, batchVars, error, returned, worldVars, enumVars, resolveVars, cfgVars, ghostVars,
                   per_video_limit, video_ids, title>>

\* except HttpError with status 403 or 404: return (the generator ends)
PageAccessDenied ==
    /\ pc = "returned" /\ request.api = "commentThreads" /\ result.kind = "exc"
    /\ entry # "retry"
    /\ IsAccessError(result.exc)
    /\ EndVideo(records, "denied")
    /\ Taken
    /\ UNCHANGED <<entry, batchVars, error, returned, worldVars, enumVars, resolveVars, cfgVars, ghostVars,
                   page_token, fetched, records, tokenAbsent,
                   per_video_limit, video_ids, title>>

\* any other exception of a comment page request: raise
PageFailed ==
    /\ pc = "returned" /\ request.api = "commentThreads" /\ result.kind = "exc"
    /\ entry # "retry"
    /\ ~IsAccessError(result.exc)
    /\ Raise(result.exc)
    /\ UNCHANGED <<entry, batchVars, returned, worldVars, enumVars, resolveVars, retryVars, fetchVars, videoVars>>

FetchTopLevelComments == PageLoop \/ PageReturned \/ PageAccessDenied \/ PageFailed

----------------------------------------------------------------------------
(* YouTubeCommentScraper.fetch_comments_for_videos and _get_video_title *)

LimitRejected_LowerOnly(limit) == limit < MinLimit

\* if per_video_limit < 100 or per_video_limit > 500: raise ValueError
LimitRejected(limit) == limit < MinLimit \/ limit > MaxLimit

ValidateLimit ==
    /\ pc = "validate"
    /\ IF LimitRejected(per_video_limit)
         THEN /\ Raise(ValueError("per_video_limit must be between 100 and 500"))
              /\ UNCHANGED <<all_records, vidx>>
         ELSE /\ all_records' = <<>>
              /\ vidx' = 1
              /\ pc' = "next_video"
              /\ UNCHANGED error
    /\ UNCHANGED <<entry, batchVars, returned, worldVars, enumVars, resolveVars, retryVars, fetchVars,
                   per_video_limit, video_ids, title>>

\* for video_id in video_ids: title = self._get_video_title(video_id)
NextVideo ==
    /\ pc = "next_video" /\ vidx <= Len(video_ids)
    /\ Call(VideosRequest(video_ids[vidx]))
    /\ UNCHANGED <<entry, batchVars, error, returned, worldVars, enumVars, resolveVars, cfgVars, ghostVars,
                   fetchVars, videoVars>>

\* the for loop is over: return all_records
VideosDone ==
    /\ pc = "next_video" /\ vidx > Len(video_ids)
    /\ Return(all_records, "comments", "collected")
    /\ UNCHANGED <<entry, batchVars, error, worldVars, enumVars, resolveVars, retryVars, fetchVars, videoVars>>

\* if not items: return ""; return str(items[0]...get("title", ""))
TitleOf(resp) == IF resp.items = <<>> THEN None ELSE resp.items[1].title

\* _get_video_title returned; the generator for this video starts
TitleReturned ==
    /\ pc = "returned" /\ request.api = "videos" /\ result.kind = "ok"
    /\ entry # "retry"
    /\ title' = TitleOf(result.resp)
    /\ page_token' = None
    /\ fetched' = 0
    /\ records' = <<>>
    /\ tokenAbsent' = FALSE
    /\ ending' = "none"
    /\ pc' = "page"
    /\ Taken
    /\ UNCHANGED <<entry, batchVars, error, returned, worldVars, enumVars, resolveVars, cfgVars, ghostVars,
                   per_video_limit, video_ids, vidx, all_records>>

\* _get_video_title has no except clause
TitleFailed ==
    /\ pc = "returned" /\ request.api = "videos" /\ result.kind = "exc"
    /\ entry # "retry"
    /\ Raise(result.exc)
    /\ UNCHANGED <<entry, batchVars, returned, worldVars, enumVars, resolveVars, retryVars, fetchVars, videoVars>>

FetchCommentsForVideos ==
    \/ ValidateLimit \/ NextVideo \/ VideosDone \/ TitleReturned \/ TitleFailed

----------------------------------------------------------------------------
(* YouTubeCommentScraper.resolve_channel_id and its strategies *)

\* [0-9A-Za-z_-]{20,} after "UC": the id characters that follow position j - 1
RECURSIVE IdRun(_, _)
IdRun(s, j) ==
    IF j > Len(s) THEN <<>>
    ELSE IF s[j].t \in {"UC", "NAME"} THEN <<s[j]>> \o IdRun(s, j + 1)
    ELSE IF s[j].t \in {"YT", "YC"} THEN <<Tok("PART", 7)>>
    ELSE <<>>

\* the text group(1) of the channel URL pattern would capture at position i
ChannelUrlGroup(s, i) == <<s[i + 1]>> \o IdRun(s, i + 2)

\* re.search(r"(?i)(?:youtube\.com/channel/)(UC[0-9A-Za-z_-]{20,})", raw) matches at i
ChannelUrlAt(s, i) ==
    /\ i + 1 <= Len(s)
    /\ s[i].t = "YC"
    /\ s[i + 1].t = "UC"
    /\ StrLen(ChannelUrlGroup(s, i)) - 2 >= IdMinChars

TryExtractChannelId_BareOnly(s) ==
    IF s # <<>> /\ s[1].t = "UC" /\ StrLen(s) >= BareMinLen THEN s ELSE <<>>

\* _try_extract_channel_id: the leftmost URL match, else a bare "UC..." string
TryExtractChannelId(s) ==
    LET M == { i \in 1..Len(s) : ChannelUrlAt(s, i) }
    IN  IF M # {}
          THEN ChannelUrlGroup(s, CHOOSE i \in M : \A k \in M : i <= k)
          ELSE IF s # <<>> /\ s[1].t = "UC" /\ StrLen(s) >= BareMinLen THEN s ELSE <<>>

\* [^/?#]+ : the characters other than "/", "?" and "#" from position j on
RECURSIVE HandleRun(_, _)
HandleRun(s, j) ==
    IF j > Len(s) THEN <<>>
    ELSE IF s[j].t \in {"AT", "NAME", "UC", "SP"} THEN <<s[j]>> \o HandleRun(s, j + 1)
    ELSE IF s[j].t \in {"YT", "YC"} THEN <<Tok("PART", 11)>>
    ELSE <<>>

\* re.search(r"(?i)(?:youtube\.com/)(@[^/?#]+)", raw) matches at i
HandleUrlAt(s, i) ==
    /\ i + 1 <= Len(s)
    /\ s[i].t = "YT"
    /\ s[i + 1].t = "AT"
    /\ HandleRun(s, i + 2) # <<>>

\* _try_extract_handle: the leftmost URL match, else a bare "@..." string
TryExtractHandle(s) ==
    LET M == { i \in 1..Len(s) : HandleUrlAt(s, i) }
    IN  IF M # {}
          THEN LET i == CHOOSE i \in M : \A k \in M : i <= k
               IN  <<s[i + 1]>> \o HandleRun(s, i + 2)
          ELSE IF s # <<>> /\ s[1].t = "AT" /\ StrLen(s) > 1 THEN s ELSE <<>>

\* h = handle.lstrip("@").strip()
HandleName(h) == Strip(LStripAt(h))

\* the value resolve_channel_id returns goes to its caller
ResolveReturn(id) == Return(id, "resolve", "resolved")

\* an exception leaves resolve_channel_id; main turns it into SystemExit
\* (except Exception as exc: raise SystemExit(...))
ResolveRaise(exc) ==
    Raise(IF entry = "main" THEN SystemExit("auto-resolve failed") ELSE exc)

\* raw = value.strip(); strategy (a), then (b), then (c), up to the first request
ResolveStart ==
    /\ pc = "resolve"
    /\ LET r == Strip(value)
           cid == TryExtractChannelId(r)
           hd == TryExtractHandle(r)
       IN  /\ raw' = r
           /\ IF r = <<>>
                 THEN /\ ResolveRaise(ValueError("Missing channel identifier"))
                      /\ UNCHANGED <<handle, returned, frameVars>>
                 ELSE IF cid # <<>>
                   THEN /\ ResolveReturn(cid)
                        /\ UNCHANGED <<handle, error, frameVars>>
                   ELSE /\ handle' = hd
                        /\ UNCHANGED <<error, returned>>
                        /\ IF hd # <<>> /\ HandleName(hd) # <<>>
                              THEN Call(HandleRequest(HandleName(hd)))
                              ELSE Call(SearchRequest(r))
    /\ UNCHANGED <<entry, batchVars, worldVars, enumVars, value, cfgVars, ghostVars,
                   fetchVars, videoVars>>

LookupId_Unstripped(resp) == IF resp.items = <<>> THEN <<>> ELSE resp.items[1].id

\* str(items[0].get("id", "")).strip() or None
LookupId(resp) == IF resp.items = <<>> THEN <<>> ELSE Strip(resp.items[1].id)

\* _resolve_channel_id_from_handle returned: use its id, else strategy (c)
HandleReturned ==
    /\ pc = "returned" /\ request.api = "handle" /\ result.kind = "ok"
    /\ entry # "retry"
    /\ LET id == LookupId(result.resp)
       IN  IF id # <<>>
             THEN /\ ResolveReturn(id)
                  /\ Taken
             ELSE /\ Call(SearchRequest(raw))
                  /\ UNCHANGED returned
    /\ UNCHANGED <<entry, batchVars, error, worldVars, enumVars, resolveVars, cfgVars, ghostVars,
                   fetchVars, videoVars>>

\* _resolve_channel_id_from_search returned: its id, else "Unable to resolve"
SearchReturned ==
    /\ pc = "returned" /\ request.api = "search" /\ result.kind = "ok"
    /\ entry # "retry"
    /\ LET id == LookupId(result.resp)
       IN  IF id # <<>>
             THEN /\ ResolveReturn(id)
                  /\ UNCHANGED error
             ELSE /\ ResolveRaise(ValueError("Unable to resolve channel_id"))
                  /\ UNCHANGED returned
    /\ Taken
    /\ UNCHANGED <<entry, batchVars, worldVars, enumVars, resolveVars, cfgVars, ghostVars,
                   fetchVars, videoVars>>

\* a lookup raised: resolve_channel_id has no except clause
ResolveFailed ==
    /\ pc = "returned" /\ request.api \in {"handle", "search"} /\ result.kind = "exc"
    /\ entry # "retry"
    /\ ResolveRaise(result.exc)
    /\ UNCHANGED <<entry, batchVars, returned, worldVars, enumVars, resolveVars, retryVars,
                   fetchVars, videoVars>>

ResolveChannelId == ResolveStart \/ HandleReturned \/ SearchReturned \/ ResolveFailed

----------------------------------------------------------------------------
(* YouTubeCommentScraper.fetch_video_ids_from_channel, _get_uploads_playlist_id *)

CapReached_Strict(n, cap) == cap # NoCap /\ n > cap

\* if max_videos is not None and len(video_ids) >= max_videos
CapReached(n, cap) == cap # NoCap /\ n >= cap

\* for item in items: vid = ...; if vid: video_ids.append(vid); if cap reached: return
\* Gives the list after the loop and whether the loop returned.
\* The loop over the items runs in order, a half of the page after the other.
RECURSIVE AppendIds(_, _, _)
AppendIds(items, ids, cap) ==
    IF Len(items) = 0
      THEN [ids |-> ids, stop |-> FALSE]
      ELSE IF Len(items) = 1
        THEN IF items[1] = None
               THEN [ids |-> ids, stop |-> FALSE]
               ELSE [ids |-> Append(ids, items[1]),
                     stop |-> CapReached(Len(ids) + 1, cap)]
        ELSE LET h == Len(items) \div 2
                 a == AppendIds(SubSeq(items, 1, h), ids, cap)
             IN  IF a.stop
                   THEN a
                   ELSE AppendIds(SubSeq(items, h + 1, Len(items)), a.ids, cap)

\* uploads_playlist_id = self._get_uploads_playlist_id(channel_id)
UploadsLookup ==
    /\ pc = "uploads"
    /\ Call(ChannelsRequest(channel_id))
    /\ UNCHANGED <<entry, batchVars, error, returned, worldVars, enumVars, resolveVars, cfgVars, ghostVars,
                   fetchVars, videoVars>>

\* _get_uploads_playlist_id: no item, or no uploads collection: raise ValueError
UploadsReturned ==
    /\ pc = "returned" /\ request.api = "channels" /\ result.kind = "ok"
    /\ entry # "retry"
    /\ LET items == result.resp.items
       IN  IF items = <<>>
             THEN /\ Raise(ValueError("Channel not found"))
                  /\ UNCHANGED <<uploads_playlist_id, video_ids, page_token>>
             ELSE IF items[1].uploads = <<>>
               THEN /\ Raise(ValueError("Uploads playlist not available for channel"))
                    /\ UNCHANGED <<uploads_playlist_id, video_ids, page_token>>
               ELSE /\ uploads_playlist_id' = items[1].uploads
                    /\ video_ids' = <<>>
                    /\ page_token' = None
                    /\ pc' = "playlist"
                    /\ UNCHANGED error
    /\ Taken
    /\ UNCHANGED <<entry, batchVars, returned, worldVars, channel_id, max_videos, resolveVars,
                   cfgVars, ghostVars,
                   fetched, records, tokenAbsent, ending,
                   per_video_limit, vidx, title, all_records>>

\* while True: request the next page of the uploads collection
PlaylistLoop ==
    /\ pc = "playlist"
    /\ Call(PlaylistRequest(uploads_playlist_id, page_token))
    /\ UNCHANGED <<entry, batchVars, error, returned, worldVars, enumVars, resolveVars, cfgVars, ghostVars,
                   fetchVars, videoVars>>

\* the value fetch_video_ids_from_channel returns goes to its caller
EnumReturn(ids) == Return(ids, "enum", "enumerated")

\* a page arrived: append its video ids, then follow the continuation token
PlaylistReturned ==
    /\ pc = "returned" /\ request.api = "playlistItems" /\ result.kind = "ok"
    /\ entry # "retry"
    /\ LET a == AppendIds(result.resp.items, video_ids, max_videos)
           token == result.resp.nextPageToken
       IN  /\ video_ids' = a.ids
           /\ IF a.stop
                 THEN /\ EnumReturn(a.ids)
                      /\ UNCHANGED page_token
                 ELSE /\ page_token' = token
                      /\ IF token = None
                            THEN EnumReturn(a.ids)
                            ELSE /\ pc' = "playlist"
                                 /\ UNCHANGED returned
    /\ Taken
    /\ UNCHANGED <<entry, batchVars, error, worldVars, enumVars, resolveVars, cfgVars, ghostVars,
                   fetched, records, tokenAbsent, ending,
                   per_video_limit, vidx, title, all_records>>

\* neither _get_uploads_playlist_id nor the page loop has an except clause
EnumFailed ==
    /\ pc = "returned" /\ request.api \in {"channels", "playlistItems"}
    /\ result.kind = "exc"
    /\ entry # "retry"
    /\ Raise(result.exc)
    /\ UNCHANGED <<entry, batchVars, returned, worldVars, enumVars, resolveVars, retryVars, fetchVars, videoVars>>

FetchVideoIds ==
    \/ UploadsLookup \/ UploadsReturned \/ PlaylistLoop \/ PlaylistReturned \/ EnumFailed

----------------------------------------------------------------------------
(* main.py: _slugify, _run_for_channel and the --all loop of main *)

US == Tok("US", 1)
Word(n) == Tok("NAME", n)

\* "".join(ch if ch.isalnum() else "_" for ch in v), token by token
Underscored(tok) ==
    CASE tok.t \in {"NAME", "UC"} -> <<tok>>
      [] tok.t = "YT" -> <<Word(7), US, Word(3), US>>
      [] tok.t = "YC" -> <<Word(7), US, Word(3), US, Word(7), US>>
      [] OTHER -> <<US>>

RECURSIVE Flatten(_)
Flatten(s) == IF s = <<>> THEN <<>> ELSE Underscored(Head(s)) \o Flatten(Tail(s))

\* while "__" in v: v = v.replace("__", "_")
RECURSIVE Collapse(_)
Collapse(s) ==
    IF Len(s) < 2 THEN s
    ELSE IF s[1] = US /\ s[2] = US THEN Collapse(Tail(s))
    ELSE <<Head(s)>> \o Collapse(Tail(s))

\* v.strip("_")
RECURSIVE StripUnderscores(_)
StripUnderscores(s) ==
    IF s # <<>> /\ Head(s) = US THEN StripUnderscores(Tail(s))
    ELSE IF s # <<>> /\ s[Len(s)] = US THEN StripUnderscores(SubSeq(s, 1, Len(s) - 1))
    ELSE s

\* _slugify(value): ... or "channel"
Slugify(v) ==
    LET w == StripUnderscores(Collapse(Flatten(Strip(v))))
    IN  IF w = <<>> THEN <<Word(7)>> ELSE w

\* The words of a comment are not part of the model: what the text functions
\* give is determined by the text they are applied to.
clean_text(text) == <<"clean_text", text>>
detect_language_label(text) == <<"detect_language_label", text>>
sentiment_score(text) == <<"sentiment_score", text>>
sentiment_label(score) == <<"sentiment_label", score>>
classify_nature_alignment(text) == <<"classify_nature_alignment", text>>

\* one row of the table final: the Username column is dropped
FinalRow(r) ==
    LET text == clean_text(r.comment_text)
    IN  [Video_Title |-> r.video_title,
         Comment_Text |-> text,
         Comment_Date |-> r.comment_date,
         Like_Count |-> r.like_count,
         Language_Label |-> detect_language_label(text),
         Sentiment_Score |-> sentiment_score(text),
         Sentiment_Label |-> sentiment_label(sentiment_score(text)),
         Nature_Aligned |-> classify_nature_alignment(text)]

\* for ch in channels: resolve the channel id if it is missing, else run the
\* channel; after the loop: if updated: _write_channels(...); return
NextChannel ==
    /\ pc = "channel"
    /\ IF ch_idx > Len(channels)
         THEN /\ channels_file' = IF updated THEN channels ELSE channels_file
              /\ Return(<<>>, "main", "done")
              /\ UNCHANGED <<value, channel_id>>
         ELSE LET name == Strip(channels[ch_idx].name)
                  cid == Strip(channels[ch_idx].channel_id)
              IN  /\ UNCHANGED <<channels_file, returned>>
                  /\ IF cid = <<>>
                        THEN /\ value' = name
                             /\ pc' = "resolve"
                             /\ UNCHANGED channel_id
                        ELSE /\ channel_id' = cid
                             /\ pc' = "uploads"
                             /\ UNCHANGED value
    /\ UNCHANGED <<entry, error, worldVars, retryVars, fetchVars, videoVars,
                   max_videos, uploads_playlist_id, raw, handle,
                   channels, ch_idx, updated, csv>>

\* ch["channel_id"] = channel_id; updated = True; _run_for_channel(...) begins
Resolved ==
    /\ pc = "resolved"
    /\ channels' = [channels EXCEPT ![ch_idx].channel_id = returned]
    /\ updated' = TRUE
    /\ channel_id' = returned
    /\ pc' = "uploads"
    /\ UNCHANGED <<entry, error, returned, worldVars, retryVars, fetchVars, videoVars,
                   max_videos, uploads_playlist_id, resolveVars,
                   ch_idx, channels_file, csv>>

\* _run_for_channel: if not video_ids: raise ValueError; else fetch the comments
Enumerated ==
    /\ pc = "enumerated"
    /\ IF returned = <<>>
         THEN /\ Raise(ValueError("No video IDs found"))
              /\ UNCHANGED video_ids
         ELSE /\ video_ids' = returned
              /\ pc' = "validate"
              /\ UNCHANGED error
    /\ UNCHANGED <<entry, returned, worldVars, retryVars, fetchVars, enumVars, resolveVars,
                   per_video_limit, vidx, title, all_records, batchVars>>

\* _run_for_channel: build the table, write it, run the analysis, return the
\* path; in main the loop goes on.  A table built from no record has no
\* column: KeyError.
Collected ==
    /\ pc = "collected"
    /\ IF returned = <<>>
         THEN /\ Raise(KeyError("Comment_Text"))
              /\ UNCHANGED <<csv, ch_idx, returned>>
         ELSE LET csv_path == Slugify(channels[ch_idx].name)
              IN  /\ csv' = Append(csv, [path |-> csv_path,
                                         rows |-> [i \in 1..Len(returned) |->
                                                      FinalRow(returned[i])]])
                  /\ ch_idx' = IF entry = "main" THEN ch_idx + 1 ELSE ch_idx
                  /\ Return(csv_path, "run", "channel")
                  /\ UNCHANGED error
    /\ UNCHANGED <<entry, worldVars, retryVars, fetchVars, videoVars, enumVars,
                   resolveVars, channels, updated, channels_file>>

RunForChannel == Enumerated \/ Collected

Main == NextChannel \/ Resolved \/ RunForChannel

----------------------------------------------------------------------------
(* _execute_with_retry on its own: one request, any sequence of outcomes *)

Videos == 1..MaxVideos
Limits == {MinLimit - 1, MinLimit, MaxLimit, MaxLimit + 1}

IdleFetch ==
    /\ page_token = None /\ fetched = 0 /\ records = <<>> /\ tokenAbsent = FALSE
    /\ ending = "none"

IdleEnum ==
    /\ channel_id = <<>> /\ max_videos = NoCap /\ uploads_playlist_id = <<>>

IdleResolve ==
    /\ value = <<>> /\ raw = <<>> /\ handle = <<>>

IdleBatch ==
    /\ channels = <<>> /\ ch_idx = 1 /\ updated = FALSE /\ channels_file = <<>>
    /\ csv = <<>>

IdleVideos ==
    /\ per_video_limit = MinLimit /\ video_ids = <<>> /\ vidx = 1
    /\ title = None /\ all_records = <<>>

InitRetry ==
    /\ entry = "retry"
    /\ pc = "execute"
    /\ sleep_seconds \in {0, 1}
    /\ request \in {VideosRequest(1), CommentsRequest(1, CommentBatch, None)}
    /\ attempt = 0
    /\ log = <<>>
    /\ result = NoResult
    /\ error = NoError
    /\ tracing = TRUE
    /\ trace = <<>>
    /\ issued = {}
    /\ failed = FALSE
    /\ pageExecs = 0
    /\ IdleEnum
    /\ IdleResolve
    /\ uploads = <<>>
    /\ commentCount \in [Videos -> {BigSource}]
    /\ returned = <<>>
    /\ IdleFetch
    /\ IdleVideos
    /\ IdleBatch

SpecRetry == InitRetry /\ [][ExecuteWithRetry]_vars

----------------------------------------------------------------------------
(* fetch_comments_for_videos(video_ids, per_video_limit=...) *)

InitFrames ==
    /\ request = NoRequest
    /\ attempt = 0
    /\ log = <<>>
    /\ result = NoResult
    /\ error = NoError
    /\ tracing = FALSE
    /\ trace = <<>>
    /\ issued = {}
    /\ failed = FALSE
    /\ pageExecs = 0
    /\ vidx = 1
    /\ title = None
    /\ all_records = <<>>
    /\ returned = <<>>
    /\ IdleFetch

\* YouTubeCommentScraper(api_key): pacing is on
InitScraper ==
    /\ sleep_seconds = 1
    /\ InitFrames

NextComments == ExecuteWithRetry \/ FetchTopLevelComments \/ FetchCommentsForVideos

\* one video, comment sources below, at and above the limits
SourceSizes == {0, MinLimit, MinLimit + TinySource, BigSource}

InitFetch ==
    /\ IdleBatch
    /\ entry = "comments"
    /\ InitScraper
    /\ pc = "validate"
    /\ IdleEnum
    /\ IdleResolve
    /\ uploads = <<>>
    /\ video_ids = <<1>>
    /\ commentCount \in [Videos -> SourceSizes]
    /\ \A v \in Videos : v > 1 => commentCount[v] = 0
    /\ per_video_limit \in {MinLimit, MaxLimit}

SpecFetch == InitFetch /\ [][NextComments]_vars

\* several videos with few comments each, any limit
VideoLists == { [i \in 1..n |-> i] : n \in 0..MaxVideos }

InitComments ==
    /\ IdleBatch
    /\ entry = "comments"
    /\ InitScraper
    /\ pc = "validate"
    /\ IdleEnum
    /\ IdleResolve
    /\ uploads = <<>>
    /\ video_ids \in VideoLists
    /\ commentCount \in [Videos -> {0, TinySource}]
    /\ \A v \in Videos : v > Len(video_ids) => commentCount[v] = 0
    /\ per_video_limit \in Limits

SpecComments == InitComments /\ [][NextComments]_vars

\* the interpreter keeps running the call, and every execution of a request ends
SpecCommentsLive == InitComments /\ [][NextComments]_vars /\ WF_vars(NextComments)

\* the same call on a scraper built with or without pacing
InitPaced ==
    /\ IdleBatch
    /\ entry = "comments"
    /\ sleep_seconds \in {0, 1}
    /\ InitFrames
    /\ pc = "validate"
    /\ IdleEnum
    /\ IdleResolve
    /\ uploads = <<>>
    /\ video_ids \in VideoLists
    /\ commentCount \in [Videos -> {TinySource}]
    /\ per_video_limit = MinLimit

SpecPaced == InitPaced /\ [][NextComments]_vars

----------------------------------------------------------------------------
(* fetch_video_ids_from_channel(channel_id, max_videos=...) *)

UploadCounts == {0, 1, PlaylistBatch, PlaylistBatch + 1, MaxUploads}
Caps == {NoCap, 0, 1, PlaylistBatch - 1, PlaylistBatch, PlaylistBatch + 1,
         2 * PlaylistBatch, MaxUploads}

\* the uploads collection lists the newest video first
UploadList(n) == [i \in 1..n |-> n + 1 - i]

InitEnum ==
    /\ IdleBatch
    /\ entry = "enum"
    /\ InitScraper
    /\ pc = "uploads"
    /\ IdleResolve
    /\ channel_id = RemoteChannelId
    /\ max_videos \in Caps
    /\ uploads_playlist_id = <<>>
    /\ uploads \in { UploadList(n) : n \in UploadCounts }
                  \cup { [UploadList(MaxUploads) EXCEPT ![2] = None] }
    /\ video_ids = <<>>
    /\ commentCount = [v \in Videos |-> 0]
    /\ per_video_limit = MinLimit

SpecEnum == InitEnum /\ [][ExecuteWithRetry \/ FetchVideoIds]_vars

----------------------------------------------------------------------------
(* resolve_channel_id(value) *)

Alphabet ==
    {YC, YT, AT, SL, SP, NAME, Tok("UC", BareMinLen - 3), Tok("UC", IdMinChars)}

Adjacent(s) ==
    \E i \in 1..(Len(s) - 1) : s[i].t \in {"UC", "NAME"} /\ s[i + 1].t \in {"UC", "NAME"}

Values ==
    { s \in UNION { [1..n -> Alphabet] : n \in 0..MaxTokens } : ~Adjacent(s) }

InitResolve ==
    /\ IdleBatch
    /\ entry = "resolve"
    /\ InitScraper
    /\ pc = "resolve"
    /\ IdleEnum
    /\ value \in Values
    /\ raw = <<>>
    /\ handle = <<>>
    /\ uploads = <<>>
    /\ video_ids = <<>>
    /\ commentCount = [v \in Videos |-> 0]
    /\ per_video_limit = MinLimit

SpecResolve == InitResolve /\ [][ExecuteWithRetry \/ ResolveChannelId]_vars

----------------------------------------------------------------------------
(* _run_for_channel(scraper, channel_name=..., channel_id=..., ...) *)

\* the channel the run is for is held as the one entry of channels
InitRun ==
    /\ entry = "run"
    /\ InitScraper
    /\ pc = "uploads"
    /\ IdleResolve
    /\ channel_id = RemoteChannelId
    /\ uploads_playlist_id = <<>>
    /\ max_videos \in {NoCap, 1}
    /\ channels = <<[name |-> <<NAME>>, channel_id |-> RemoteChannelId]>>
    /\ ch_idx = 1
    /\ updated = FALSE
    /\ channels_file = <<>>
    /\ csv = <<>>
    /\ uploads \in { UploadList(n) : n \in 0..MaxVideos }
    /\ video_ids = <<>>
    /\ commentCount \in [Videos -> {0, TinySource}]
    /\ per_video_limit \in {MinLimit - 1, MinLimit}

NextRun ==
    \/ ExecuteWithRetry \/ FetchVideoIds
    \/ FetchTopLevelComments \/ FetchCommentsForVideos \/ RunForChannel

SpecRun == InitRun /\ [][NextRun]_vars

----------------------------------------------------------------------------
(* main() with --all *)

ChannelNames == {<<NAME>>, <<AT, NAME>>}
ChannelEntries == [name : ChannelNames, channel_id : {<<>>, RemoteChannelId}]
ChannelLists == UNION { [1..n -> ChannelEntries] : n \in 1..MaxChannels }

InitBatch ==
    /\ entry = "main"
    /\ InitScraper
    /\ pc = "channel"
    /\ IdleResolve
    /\ channel_id = <<>>
    /\ uploads_playlist_id = <<>>
    /\ max_videos = NoCap
    /\ channels \in ChannelLists
    /\ ch_idx = 1
    /\ updated = FALSE
    /\ channels_file = channels
    /\ csv = <<>>
    /\ uploads \in {UploadList(0), UploadList(1)}
    /\ video_ids = <<>>
    /\ commentCount \in [Videos -> {0, TinySource}]
    /\ \A v \in Videos : v > 1 => commentCount[v] = 0
    /\ per_video_limit \in {MinLimit - 1, MinLimit}

NextBatch ==
    \/ ExecuteWithRetry \/ ResolveChannelId \/ FetchVideoIds
    \/ FetchTopLevelComments \/ FetchCommentsForVideos \/ Main

SpecBatch == InitBatch /\ [][NextBatch]_vars

----------------------------------------------------------------------------
(* Properties *)

\* the backoff waits of a call of _execute_with_retry, in order
BackoffWaits(l) ==
    LET b == SelectSeq(l, LAMBDA e : e.ev = "backoff")
    IN  [i \in 1..Len(b) |-> b[i].n]

Executions(l) == Len(SelectSeq(l, LAMBDA e : e.ev = "execute"))

TransientFailure(o) ==
    o.kind = "exc" /\ o.exc.type = "HttpError" /\ o.exc.status_code \in {429, 500, 503}

PermanentFailure(o) ==
    o.kind = "exc" /\ o.exc.type = "HttpError" /\ o.exc.status_code \notin {429, 500, 503}

AllTransient(t) == \A i \in 1..Len(t) : TransientFailure(t[i])

\* the record the i-th comment of video v must become
ExpectedRecord(v, video_title, i) ==
    LET c == RawComment(v, i)
    IN  [video_title |-> video_title,
         comment_text |-> c.textDisplay,
         comment_date |-> c.publishedAt,
         like_count |-> c.likeCount,
         username_hash |-> <<"sha256", c.authorDisplayName>>]

FirstComments(v, video_title, k) == [i \in 1..k |-> ExpectedRecord(v, video_title, i)]

\* C1: a per_video_limit below 100 or above 500 is rejected with a validation
\* error before any remote request is executed, whatever the video list; 100 and
\* 500 themselves pass the validation.
C1_LimitValidatedBeforeRequests ==
    /\ (per_video_limit < 100 \/ per_video_limit > 500) =>
          /\ issued = {}
          /\ request = NoRequest
          /\ pc \in {"validate", "raised"}
          /\ pc = "raised" => error.type = "ValueError"
    /\ (per_video_limit \in {100, 500} /\ pc # "validate") => error.type # "ValueError"

C1_Witness ==
    /\ pc = "raised" /\ error.type = "ValueError"
    /\ per_video_limit = 501 /\ Len(video_ids) = 2

\* channels of the batch whose processing was begun
ChannelsRun == { i \in 1..Len(channels) : i <= ch_idx }

\* C2: in a batch run (--all), whatever happens to one channel, when the run
\* is over every channel of the batch has been processed or at least begun.
C2_BatchIsolation ==
    (entry = "main" /\ pc \in {"done", "raised"}) =>
        ChannelsRun = 1..Len(channels)

\* C3: a failure while handling one video (its title lookup or one of its comment
\* pages) does not abort fetch_comments_for_videos: with a valid limit the call
\* never ends with an exception, so the other videos are processed and their
\* records returned.
C3_VideoFailureDoesNotAbort ==
    (per_video_limit >= 100 /\ per_video_limit <= 500) => pc # "raised"

\* C4: a comment page request that fails with 403 or 404 ends the retrieval for
\* that video only: the records of the earlier pages are kept, nothing is raised,
\* and the failed request is neither executed again nor followed by a backoff.
AccessDenied ==
    /\ pc = "returned" /\ request.api = "commentThreads"
    /\ result.kind = "exc" /\ result.exc.type = "HttpError"
    /\ result.exc.status_code \in {403, 404}

C4_AccessDeniedEndsVideoOnly ==
    [][AccessDenied =>
         /\ log[Len(log)].ev = "execute"
         /\ records = FirstComments(video_ids[vidx], title, fetched)
         /\ pc' = "next_video"
         /\ vidx' = vidx + 1
         /\ error' = NoError
         /\ all_records' = all_records \o records]_vars

C4_Witness ==
    /\ pc = "done" /\ ending = "denied" /\ error = NoError
    /\ Len(returned) = ShortPage

\* C5: two transient failures (429, 500 or 503) followed by a success give the
\* successful response after exactly two backoff waits, of 2 and then 4.
C5_TwoTransientThenSuccess ==
    (/\ Len(trace) = 3
     /\ TransientFailure(trace[1]) /\ TransientFailure(trace[2])
     /\ trace[3].kind = "ok") =>
        /\ pc = "returned"
        /\ result = trace[3]
        /\ Executions(log) = 3
        /\ BackoffWaits(log) = <<2, 4>>

C5_Witness ==
    /\ Len(trace) = 3 /\ TransientFailure(trace[1]) /\ TransientFailure(trace[2])
    /\ trace[1] # trace[2]
    /\ result.kind = "ok" /\ result.resp.items # <<>>

\* C6: a request that keeps failing with a transient status is retried at most 5
\* times, after waits of 2, 4, 8, 16 and 30; no wait exceeds 30; the failure after
\* the 5th retry propagates.
BackoffSchedule == <<2, 4, 8, 16, 30>>

C6_BoundedExponentialBackoff ==
    LET w == BackoffWaits(log)
    IN  /\ Len(w) <= 5
        /\ w = SubSeq(BackoffSchedule, 1, Len(w))
        /\ \A i \in 1..Len(w) : w[i] <= 30
        /\ Executions(log) <= 6
        /\ (AllTransient(trace) /\ Len(trace) <= 5) =>
              (pc = "execute" /\ Len(w) = Len(trace))
        /\ (AllTransient(trace) /\ Len(trace) = 6) =>
              (pc = "returned" /\ result = trace[6] /\ Len(w) = 5)

C6_Witness ==
    /\ Len(trace) = 6 /\ AllTransient(trace)
    /\ pc = "returned" /\ result.kind = "exc"
    /\ BackoffWaits(log) = BackoffSchedule

\* C7: a failure with a status that is not 429, 500 or 503 propagates at once:
\* it is the last execution of the request and no backoff follows it, however
\* many transient failures came before.
C7_PermanentFailurePropagatesAtOnce ==
    \A i \in 1..Len(trace) :
        PermanentFailure(trace[i]) =>
            /\ i = Len(trace)
            /\ pc = "returned"
            /\ result = trace[i]
            /\ Executions(log) = i
            /\ log[Len(log)].ev = "execute"
            /\ Len(BackoffWaits(log)) = i - 1

C7_Witness ==
    /\ Len(trace) = 3 /\ PermanentFailure(trace[3]) /\ trace[3].exc.status_code = 400
    /\ pc = "returned" /\ result.kind = "exc"

\* C8: with N uploads and a positive cap K < N, fetch_video_ids_from_channel returns
\* exactly the first K identifiers of the collection, in its order, and when no
\* request fails it executes exactly ceil(K/50) page requests.
C8_CappedEnumeration ==
    LET N == Len(uploads)
        K == max_videos
    IN  (/\ K > 0 /\ K < N
         /\ \A i \in 1..N : uploads[i] # None
         /\ pc = "done") =>
            /\ Len(returned) = K
            /\ returned = SubSeq(uploads, 1, K)
            /\ ~failed => pageExecs = (K + 49) \div 50

C8_Witness ==
    /\ pc = "done" /\ ~failed
    /\ Len(uploads) = MaxUploads /\ max_videos = 51 /\ uploads[2] # None
    /\ pageExecs = 2 /\ Len(returned) = 51

\* C9: a video whose source holds L <= limit comments yields exactly those L
\* records, in the order received, and no request follows the first comment page
\* that carries no continuation token.
C9_ExhaustedSourceYieldsAll ==
    LET v == video_ids[1]
        L == commentCount[v]
    IN  /\ tokenAbsent => pc \in {"next_video", "done"}
        /\ (L <= per_video_limit /\ ending \in {"limit", "exhausted"}) =>
              all_records = FirstComments(v, title, L)
        /\ (L <= per_video_limit /\ pc = "done" /\ ending # "denied") =>
              returned = FirstComments(v, title, L)

C9_Witness ==
    /\ pc = "done" /\ ending = "exhausted"
    /\ commentCount[1] = MinLimit + TinySource /\ per_video_limit = MaxLimit
    /\ Len(returned) = commentCount[1]

\* the input holds a canonical-ID-shaped token, "UC" and at least 20 id
\* characters, that is not itself the name of a handle
HasIdToken(s) ==
    \E i \in 1..Len(s) :
        /\ s[i].t = "UC" /\ s[i].n >= 20
        /\ i > 1 => s[i - 1].t # "AT"

\* the input holds a handle-shaped token: "@" and a name
HasHandleToken(s) ==
    \E i \in 1..(Len(s) - 1) : s[i].t = "AT" /\ s[i + 1].t \in {"NAME", "UC"}

\* the input holds a canonical-ID-shaped token right after "youtube.com/channel/"
HasUrlIdToken(s) ==
    \E i \in 1..(Len(s) - 1) : s[i].t = "YC" /\ s[i + 1].t = "UC" /\ s[i + 1].n >= 20

GivesChannelId(resp) == resp.items # <<>> /\ Strip(resp.items[1].id) # <<>>

\* the search request is being issued by this step
SearchIssued == request.api # "search" /\ request'.api = "search"

\* the "unable to resolve" error is being raised by this step
UnableRaised ==
    error = NoError /\ error' = ValueError("Unable to resolve channel_id")

\* C11: resolve_channel_id tries (a) id extraction, (b) handle lookup, (c) search,
\* in this order: the search request is issued only when the id extraction found
\* nothing and the handle lookup, if there was one, gave no channel id; a handle
\* lookup that gives no channel id is followed by the search request, never by
\* the end of the resolution; "Unable to resolve" is raised only when the search
\* request has also given no channel id.
C11_StrategiesInOrder ==
    /\ []("search" \in issued => TryExtractChannelId(Strip(value)) = <<>>)
    /\ [][SearchIssued =>
            /\ TryExtractChannelId(Strip(value)) = <<>>
            /\ \/ /\ pc = "resolve"
                  /\ HandleName(TryExtractHandle(Strip(value))) = <<>>
               \/ /\ pc = "returned" /\ request.api = "handle"
                  /\ result.kind = "ok" /\ ~GivesChannelId(result.resp)]_vars
    /\ [][(/\ pc = "returned" /\ request.api = "handle"
           /\ result.kind = "ok" /\ ~GivesChannelId(result.resp)) =>
              (SearchIssued /\ pc' = "execute" /\ error' = NoError)]_vars
    /\ [][UnableRaised =>
            /\ pc = "returned" /\ request.api = "search"
            /\ result.kind = "ok" /\ ~GivesChannelId(result.resp)
            /\ TryExtractChannelId(raw) = <<>>]_vars

C11_Witness ==
    /\ pc = "raised" /\ error = ValueError("Unable to resolve channel_id")
    /\ issued = {"handle", "search"}
    /\ TryExtractHandle(raw) # <<>>

\* the pacing delay of the scraper, as an event of the log
PacingDelay == [ev |-> "pace", n |-> sleep_seconds]

\* every execution in the log comes right after one pacing delay (none if the
\* delay is not positive)
PacedLog ==
    \A i \in 1..Len(log) :
        log[i].ev = "execute" =>
            IF sleep_seconds > 0
              THEN /\ i > 1 /\ log[i - 1] = PacingDelay
                   /\ i > 2 => log[i - 2].ev # "pace"
              ELSE i > 1 => log[i - 1].ev # "pace"

\* C12: every execution of a request, the re-executions after a transient failure
\* included, comes right after exactly one pacing delay of sleep_seconds when
\* that is positive; and a request is handed to _execute_with_retry only when no
\* other request is outstanding.
C12_PacedAndSequential ==
    /\ []PacedLog
    /\ [](Executions(log) > 0 => request # NoRequest)
    /\ [][(request' # request /\ request' # NoRequest) =>
             (pc # "execute" /\ pc' = "execute" /\ log' = <<>>)]_vars
    /\ [][Executions(log') > Executions(log) =>
             (pc = "execute" /\ request' = request
              /\ Executions(log') = Executions(log) + 1)]_vars

C12_Witness ==
    /\ sleep_seconds = 1 /\ pc = "returned" /\ request.api = "commentThreads"
    /\ Len(log) = 5 /\ log[3].ev = "backoff"
    /\ log[4] = PacingDelay /\ log[5].ev = "execute"
    /\ vidx = 2

\* the apis the requests of _run_for_channel go to
ChannelRunApis == {"channels", "playlistItems", "videos", "commentThreads"}

\* C13: in a run for a channel with a per-video cap below 100 or above 500, no
\* request of that run (uploads lookup, upload-list page, title lookup, comment
\* page) is ever executed: the validation error comes first.
C13_ValidationBeforeChannelRequests ==
    (per_video_limit < 100 \/ per_video_limit > 500) =>
        issued \cap ChannelRunApis = {}

\* C14: while the comments of a video are retrieved with a limit in [100, 500],
\* every comment page request asks for min(100, limit - records yielded so far)
\* items, and the number of records yielded for the video never exceeds the
\* limit, whatever the number of items in the responses.
C14_BatchSizeAndLimit ==
    (per_video_limit >= 100 /\ per_video_limit <= 500) =>
        /\ request.api = "commentThreads" =>
              /\ request.maxResults = Min(100, per_video_limit - Len(records))
              /\ request.maxResults >= 1
        /\ Len(records) <= per_video_limit
        /\ fetched = Len(records)
        /\ Len(all_records) <= per_video_limit

C14_Witness ==
    /\ pc = "execute" /\ request.api = "commentThreads"
    /\ per_video_limit = 500
    /\ Len(records) = 4 * CommentBatch + Overfill
    /\ request.maxResults = CommentBatch - Overfill

\* C15: _get_video_title does not raise when the video is unavailable: a title
\* lookup that is answered with not-found (404) gives the empty title and the
\* call of fetch_comments_for_videos goes on.
C15_TitleLookupDoesNotRaise ==
    ~(/\ pc = "raised"
      /\ request.api = "videos"
      /\ result = Raised(HttpError(404))
      /\ error = HttpError(404))

\* the comment a record was built from (the text of a comment names it)
SourceOf(r) == RawComment(r.comment_text \div 1000, r.comment_text % 1000)

\* the records emitted so far
Emitted ==
    { all_records[i] : i \in 1..Len(all_records) } \cup { records[i] : i \in 1..Len(records) }

RecordFields == {"video_title", "comment_text", "comment_date", "like_count", "username_hash"}

TableColumns ==
    {"Video_Title", "Comment_Text", "Comment_Date", "Like_Count", "Language_Label",
     "Sentiment_Score", "Sentiment_Label", "Nature_Aligned"}

\* C16: a record holds of the author of its comment the digest of the name and
\* nothing else: equal names give equal username_hash values, the username_hash
\* is never the name itself, the other fields are those of the comment, and the
\* rows of the table written for the channel are made of the records' other
\* fields only (no column holds the name or its digest).
C16_AuthorOnlyThroughDigest ==
    /\ \A r \in Emitted :
          /\ DOMAIN r = RecordFields
          /\ r.username_hash # SourceOf(r).authorDisplayName
          /\ r.username_hash = <<"sha256", SourceOf(r).authorDisplayName>>
          /\ r.comment_date = SourceOf(r).publishedAt
          /\ r.like_count = SourceOf(r).likeCount
    /\ \A r1, r2 \in Emitted :
          SourceOf(r1).authorDisplayName = SourceOf(r2).authorDisplayName =>
              r1.username_hash = r2.username_hash
    /\ \A k \in 1..Len(csv) :
          /\ Len(csv[k].rows) = Len(all_records)
          /\ \A i \in 1..Len(csv[k].rows) :
                /\ DOMAIN csv[k].rows[i] = TableColumns
                /\ csv[k].rows[i] = FinalRow([all_records[i] EXCEPT !.username_hash = <<>>])

C16_Witness ==
    /\ pc = "done" /\ Len(csv) = 1 /\ Len(csv[1].rows) = 4
    /\ SourceOf(all_records[1]).authorDisplayName = SourceOf(all_records[3]).authorDisplayName
    /\ all_records[1].username_hash = all_records[3].username_hash
    /\ all_records[1].username_hash # all_records[2].username_hash

\* C17: the retrieval for a video always ends, whatever the collaborator answers
\* (limit reached, token exhausted, access denied, or a failure that is raised),
\* so that the call of fetch_comments_for_videos returns or raises.
C17_RetrievalTerminates == <>(pc \in {"done", "raised"})

\* C18: with a cap max_videos >= 0 (0 included), the list returned by
\* fetch_video_ids_from_channel holds at most max_videos identifiers.
C18_AtMostCapIdentifiers ==
    (pc = "done" /\ max_videos # NoCap /\ max_videos >= 0) =>
        Len(returned) <= max_videos

\* C19: once the comment retrieval of a run has returned (the video list was not
\* empty and nothing was raised), _run_for_channel completes: it never fails
\* while building the table, and when it is done the channel's table is written
\* with one row per record retrieved, also when there is no record at all.
C19_RunCompletesWithTable ==
    /\ pc = "raised" => error.type # "KeyError"
    /\ pc = "done" =>
          /\ Len(csv) = 1
          /\ Len(csv[1].rows) = Len(all_records)

====
